---- MODULE Spec2Model ----
(***************************************************************************)
(* Model of revolut-customer's Amount type (src/src/amount.rs): a fixed    *)
(* point currency amount held in an unsigned machine word counting         *)
(* hundredths, with its arithmetic operators, its Display formatter and    *)
(* its FromStr parser; and of the API Client (src/src/lib.rs and           *)
(* src/src/private/): its options, its authentication state and the        *)
(* requests its calls send.                                                *)
(*                                                                         *)
(* The u64 word of the source is modelled at a reduced width of WordBits   *)
(* bits, so that every product the code forms stays a small integer; all   *)
(* arithmetic keeps that width (wrapping is % Modulus).  Rust's `+`,       *)
(* `-` and `*` on an unsigned word panic on overflow when the crate is     *)
(* built with overflow checks (the debug profile) and wrap without them    *)
(* (the release profile): overflow_checks is the profile of the build.     *)
(*                                                                         *)
(* Texts are sequences of one-character strings.                           *)
(***************************************************************************)
EXTENDS Integers, Sequences, FiniteSets

VARIABLES
    overflow_checks, \* the build profile: TRUE panics on overflow, FALSE wraps
    value,           \* Amount.value of the amount the program holds
    orig,            \* history: value before the first operation
    prev,            \* history: value before the last operation
    rhs,             \* the right-hand operand: [kind, v]
    ops,             \* history: the operations applied so far, in order
    panicked,        \* the last operation panicked (the thread unwinds)
    text,            \* the text to parse, or the text Display wrote
    precision,       \* f.precision(): None or a number of digits
    width,           \* f.width(): None or a minimum length
    parsed,          \* the Result of from_str
    client,          \* the Client: [options, user_id, access_token]
    prev_client,     \* history: the client before the last call
    builder,         \* the OptionsBuilder: each field Some(text) or nothing
    args,            \* the arguments the last call was given, if it was given any
    sent,            \* the request the last call sent, if it sent one
    received,        \* what send() answered that request with
    returned         \* the Result the last call returned

clientVars == <<client, prev_client, builder, args, sent, received, returned>>

vars == <<overflow_checks, value, orig, prev, rhs, ops, panicked, text,
          precision, width, parsed, clientVars>>

----------------------------------------------------------------------------
(* Bounds *)

\* Width in bits of the machine word standing for u64.
WordBits == 10

\* Longest chain of operators applied to one amount.
MaxOps == 2

\* Longest fractional part enumerated digit by digit.
MaxFracLen == 3

\* Longest sequence of calls made on one client.
MaxCalls == 3

----------------------------------------------------------------------------
(* The machine word *)

Modulus == 2 ^ WordBits

\* u64::max_value()
U64_MAX == Modulus - 1

\* u64::min_value()
U64_MIN == 0

\* An Option that is None.
None == -1

\* The outcome of an expression: a value, or a panic.
Ok(v) == [ok |-> TRUE, value |-> v]
Panic == [ok |-> FALSE, value |-> 0]

\* Err(ParseIntError), the failure of str::parse::<u64>.
ParseIntError == [ok |-> FALSE, value |-> 0]

\* Rust's `a + b` on u64.
U64Add(a, b, checks) ==
    IF a + b > U64_MAX
    THEN IF checks THEN Panic ELSE Ok((a + b) % Modulus)
    ELSE Ok(a + b)

\* Rust's `a - b` on u64.
U64Sub(a, b, checks) ==
    IF a < b
    THEN IF checks THEN Panic ELSE Ok((a - b + Modulus) % Modulus)
    ELSE Ok(a - b)

\* Rust's `a * b` on u64.
U64Mul(a, b, checks) ==
    IF a * b > U64_MAX
    THEN IF checks THEN Panic ELSE Ok((a * b) % Modulus)
    ELSE Ok(a * b)

\* Rust's `a / b` on u64: division by zero always panics.
U64Div(a, b) == IF b = 0 THEN Panic ELSE Ok(a \div b)

\* Rust's `a % b` on u64: a zero divisor always panics.
U64Rem(a, b) == IF b = 0 THEN Panic ELSE Ok(a % b)

\* The scalar types impl_ops_int! is instantiated for.
ScalarTypes == {"u8", "u16", "u32", "u64"}

\* Width of each scalar type, scaled with the word: u64 is the whole word,
\* and, as in the source, a hundred times any narrower scalar fits the word.
ScalarBits(t) ==
    CASE t = "u8"  -> 2
      [] t = "u16" -> 3
      [] t = "u32" -> 3
      [] t = "u64" -> WordBits

ScalarMax(t) == 2 ^ ScalarBits(t) - 1

----------------------------------------------------------------------------
(* Amount *)

from_repr(v) == v
min_value == from_repr(U64_MIN)
max_value == from_repr(U64_MAX)

\* Variant of Div that rounds to the nearest hundredth.
DivRounding(self, r) == U64Div(self + r \div 2, r)

\* Variant of Div written with checked_div(..).unwrap_or(0).
DivZeroAsZero(self, r) == IF r = 0 THEN Ok(0) ELSE Ok(self \div r)

\* impl Div<$t> for Amount
Div(self, r) == U64Div(self, r)

\* impl DivAssign<$t> for Amount
DivAssign(self, r) == U64Div(self, r)

\* Variant of Rem over hundredths: the plain `self.value % rhs`.
RemMinorUnits(self, r, checks) == U64Rem(self, r)

\* impl Rem<$t> for Amount
Rem(self, r, checks) ==
    LET m == U64Mul(r, 100, checks)
    IN  IF m.ok THEN U64Rem(self, m.value) ELSE Panic

\* Variant of RemAssign over hundredths: the plain `self.value %= rhs`.
RemAssignMinorUnits(self, r, checks) == U64Rem(self, r)

\* impl RemAssign<$t> for Amount
RemAssign(self, r, checks) ==
    LET m == U64Mul(r, 100, checks)
    IN  IF m.ok THEN U64Rem(self, m.value) ELSE Panic

\* Variant of Mul that scales the scalar to hundredths, as Rem does.
MulWholeUnits(self, r, checks) == U64Mul(self, r * 100, checks)

\* impl Mul<$t> for Amount
Mul(self, r, checks) == U64Mul(self, r, checks)

\* Variant of the scalar-first product written with wrapping_mul.
MulScalarWrapping(self, r, checks) == U64Mul(self, r, FALSE)

\* impl Mul<Amount> for $t
MulScalar(self, r, checks) == U64Mul(self, r, checks)

\* impl MulAssign<$t> for Amount
MulAssign(self, r, checks) == U64Mul(self, r, checks)

\* impl Add for Amount
Add(self, r, checks) == U64Add(self, r, checks)

\* impl AddAssign for Amount
AddAssign(self, r, checks) == U64Add(self, r, checks)

\* Variant of Sub with the operator of Add left in place.
SubAsAdd(self, r, checks) == U64Add(self, r, checks)

\* impl Sub for Amount
Sub(self, r, checks) == U64Sub(self, r, checks)

\* impl SubAssign for Amount
SubAssign(self, r, checks) == U64Sub(self, r, checks)

----------------------------------------------------------------------------
(* Texts *)

DigitChars == <<"0", "1", "2", "3", "4", "5", "6", "7", "8", "9">>
Digits == {DigitChars[i] : i \in 1..10}
DigitValue(c) == (CHOOSE i \in 1..10 : DigitChars[i] = c) - 1

\* format!("{}", n) of an unsigned integer.
RECURSIVE ToString(_)
ToString(n) ==
    IF n < 10 THEN <<DigitChars[n + 1]>>
    ELSE Append(ToString(n \div 10), DigitChars[(n % 10) + 1])

\* Variant of Pad1 padded to two digits: format!("{:02}", n).
Pad1AsPad2(n) == IF n < 10 THEN <<"0">> \o ToString(n) ELSE ToString(n)

\* format!("{:01}", n): at least one digit, which every number has.
Pad1(n) == ToString(n)

\* Variant of Pad2 without the padding: format!("{}", n).
Pad2Unpadded(n) == ToString(n)

\* format!("{:02}", n): zero-padded to at least two digits.
Pad2(n) == IF n < 10 THEN <<"0">> \o ToString(n) ELSE ToString(n)

\* `n` copies of the character '0'.
Zeros(n) == [i \in 1..n |-> "0"]

\* The digits of str read as a decimal number into a u64, with checked
\* multiplication and addition: an error on a non-digit or on overflow.
RECURSIVE ParseDigits(_, _)
ParseDigits(str, acc) ==
    IF str = <<>> THEN Ok(acc)
    ELSE IF Head(str) \notin Digits THEN ParseIntError
    ELSE LET next == acc * 10 + DigitValue(Head(str))
         IN  IF next > U64_MAX THEN ParseIntError
             ELSE ParseDigits(Tail(str), next)

\* str.parse::<u64>(): the empty text and a lone sign are errors, one
\* leading '+' is accepted, '-' is not a digit of an unsigned type.
ParseU64(str) ==
    IF str = <<>> THEN ParseIntError
    ELSE IF Len(str) = 1 /\ Head(str) \in {"+", "-"} THEN ParseIntError
    ELSE IF Head(str) = "+" THEN ParseDigits(Tail(str), 0)
    ELSE ParseDigits(str, 0)

\* s.split('.'): the pieces of s between its dots.
RECURSIVE Split(_)
Split(s) ==
    IF \A i \in 1..Len(s) : s[i] # "."
    THEN <<s>>
    ELSE LET k == CHOOSE i \in 1..Len(s) :
                      s[i] = "." /\ \A j \in 1..(i - 1) : s[j] # "."
         IN  <<SubSeq(s, 1, k - 1)>> \o Split(SubSeq(s, k + 1, Len(s)))

\* s.contains('.')
Contains(s, c) == \E i \in 1..Len(s) : s[i] = c

\* 10_u64.pow(e) without overflow checks: the product modulo the word.
RECURSIVE PowWrap(_)
PowWrap(e) == IF e = 0 THEN 1 ELSE (10 * PowWrap(e - 1)) % Modulus

\* 10^e, or some number above U64_MAX once the power has left the word.
RECURSIVE PowSat(_)
PowSat(e) ==
    IF e = 0 THEN 1
    ELSE LET p == PowSat(e - 1) IN IF p > U64_MAX THEN p ELSE 10 * p

\* 10_u64.pow(e)
Pow10(e, checks) ==
    IF PowSat(e) > U64_MAX
    THEN IF checks THEN Panic ELSE Ok(PowWrap(e))
    ELSE Ok(PowSat(e))

----------------------------------------------------------------------------
(* impl fmt::Display for Amount *)

\* The `None =>` arm: the shortest text that loses nothing.
FmtDefault(units, decimal_repr) ==
    IF decimal_repr = 0 THEN ToString(units)
    ELSE IF decimal_repr % 10 = 0
         THEN ToString(units) \o <<".">> \o Pad1(decimal_repr \div 10)
         ELSE ToString(units) \o <<".">> \o Pad2(decimal_repr)

\* Variant of FmtZero that drops the decimals without rounding.
FmtZeroTruncating(units, decimal_repr) == ToString(units)

\* The `Some(0) =>` arm: no decimal digits.
FmtZero(units, decimal_repr) ==
    ToString(IF decimal_repr >= 50 THEN units + 1 ELSE units)

\* The `Some(1) =>` arm: one decimal digit.
FmtOne(units, decimal_repr) ==
    ToString(units) \o <<".">> \o
        Pad1(IF decimal_repr % 10 >= 5
             THEN decimal_repr \div 10 + 1
             ELSE decimal_repr \div 10)

\* Variant of FmtMany whose loop runs over 0..p: p zeros after the two digits.
FmtManyExtraZeros(units, decimal_repr, p) ==
    ToString(units) \o <<".">> \o Pad2(decimal_repr) \o Zeros(p)

\* The `Some(p) =>` arm: two or more decimal digits.
FmtMany(units, decimal_repr, p) ==
    ToString(units) \o <<".">> \o Pad2(decimal_repr) \o Zeros(p - 2)

\* `match f.precision()`: the text before the width is applied.
FmtPrecision(v, p) ==
    LET units == v \div 100
        decimal_repr == v % 100
    IN  IF p = None THEN FmtDefault(units, decimal_repr)
        ELSE IF p = 0 THEN FmtZero(units, decimal_repr)
        ELSE IF p = 1 THEN FmtOne(units, decimal_repr)
        ELSE FmtMany(units, decimal_repr, p)

\* Variant of FmtWidth that pads with spaces, as the standard formatter does.
FmtWidthSpaces(result, w) ==
    IF w = None THEN result
    ELSE IF w < Len(result) THEN result
    ELSE [i \in 1..(w - Len(result)) |-> " "] \o result

\* `match f.width()`: zeros in front, up to the width.
FmtWidth(result, w) ==
    IF w = None THEN result
    ELSE IF w < Len(result) THEN result
    ELSE Zeros(w - Len(result)) \o result

Display(v, p, w) == FmtWidth(FmtPrecision(v, p), w)

----------------------------------------------------------------------------
(* impl FromStr for Amount *)

\* Variant of the error that carries units_str instead of s.
ParseErrUnits(s) == [tag |-> "Err", value |-> 0, amount_str |-> Split(s)[1]]

\* The Result of from_str: Ok(Amount), Err(AmountParseError { amount_str }),
\* or a panic inside the function.
ParseOk(v) == [tag |-> "Ok", value |-> v, amount_str |-> <<>>]

ParseErr(s) == [tag |-> "Err", value |-> 0, amount_str |-> s]

ParsePanic == [tag |-> "panic", value |-> 0, amount_str |-> <<>>]
NotParsed == [tag |-> "none", value |-> 0, amount_str |-> <<>>]

\* The `decimals` block: the fraction in hundredths, rounded.
Decimals(decimals_str, checks) ==
    LET d == ParseU64(decimals_str)
    IN  IF ~d.ok THEN [tag |-> "Err", value |-> 0]
        ELSE IF Len(decimals_str) = 2 THEN [tag |-> "Ok", value |-> d.value]
        ELSE LET divisor == Pow10(Len(decimals_str) - 2, checks)
             IN  IF ~divisor.ok \/ divisor.value = 0
                 THEN [tag |-> "panic", value |-> 0]
                 ELSE LET rem == d.value % divisor.value
                          up == U64Add(d.value \div divisor.value, 1, checks)
                      IN  IF rem >= divisor.value \div 2
                          THEN IF up.ok THEN [tag |-> "Ok", value |-> up.value]
                               ELSE [tag |-> "panic", value |-> 0]
                          ELSE [tag |-> "Ok", value |-> d.value \div divisor.value]

\* Variant of Units that forgets to scale the units to hundredths.
UnitsUnscaled(units_str) ==
    LET u == ParseU64(units_str)
    IN  IF units_str = <<>> THEN [tag |-> "Ok", value |-> 0]
        ELSE IF ~u.ok THEN [tag |-> "Err", value |-> 0]
        ELSE IF u.value <= U64_MAX \div 100
             THEN [tag |-> "Ok", value |-> u.value]
             ELSE [tag |-> "Err", value |-> 0]

\* The `units` block: the integer part in hundredths; empty counts as 0.
Units(units_str) ==
    LET u == ParseU64(units_str)
    IN  IF units_str = <<>> THEN [tag |-> "Ok", value |-> 0]
        ELSE IF ~u.ok THEN [tag |-> "Err", value |-> 0]
        ELSE IF u.value <= U64_MAX \div 100
             THEN [tag |-> "Ok", value |-> u.value * 100]
             ELSE [tag |-> "Err", value |-> 0]

\* Variant of Combine without the range check: the sum wraps.
CombineWrapping(s, units, decimals) ==
    ParseOk(from_repr((units + decimals) % Modulus))

\* The closing `if`: the sum, unless it would pass u64::max_value().
Combine(s, units, decimals) ==
    IF U64_MAX - decimals >= units
    THEN ParseOk(from_repr(units + decimals))
    ELSE ParseErr(s)

\* The `2 =>` arm: exactly one dot.
FromStrDot(s, checks) ==
    LET split == Split(s)
        units == Units(split[1])
        decimals_str == IF Len(split[2]) = 1 THEN Append(split[2], "0")
                        ELSE split[2]
        decimals == Decimals(decimals_str, checks)
    IN  IF units.tag = "Err" THEN ParseErr(s)
        ELSE IF split[2] = <<>> THEN ParseErr(s)
        ELSE IF decimals.tag = "Err" THEN ParseErr(s)
        ELSE IF decimals.tag = "panic" THEN ParsePanic
        ELSE Combine(s, units.value, decimals.value)

\* The else branch: no dot.
FromStrUnits(s) ==
    LET units == ParseU64(s)
    IN  IF ~units.ok THEN ParseErr(s)
        ELSE IF units.value <= U64_MAX \div 100
             THEN ParseOk(from_repr(units.value * 100))
             ELSE ParseErr(s)

\* Variant of from_str that reads the first two pieces and ignores the rest.
FromStrFirstPieces(s, checks) ==
    IF Contains(s, ".") THEN FromStrDot(s, checks) ELSE FromStrUnits(s)

\* Amount::from_str
FromStr(s, checks) ==
    IF Contains(s, ".")
    THEN IF Len(Split(s)) = 2 THEN FromStrDot(s, checks) ELSE ParseErr(s)
    ELSE FromStrUnits(s)

----------------------------------------------------------------------------
(* Options and Client (src/src/lib.rs) *)

\* Option<T> of a String or a Uuid: Some(x), or nothing.
Some(x) == <<x>>
Absent == <<>>

\* impl Default for Options
DefaultOptions ==
    [client_version |-> "5.29",
     api_version    |-> "1",
     device_id      |-> "SOME-DEVICE-ID",
     device_model   |-> "iPhone8,1",
     user_agent     |-> "Revolut/com.revolut.revolut (iPhone; iOS 11.1)"]

\* Options::android()
AndroidOptions ==
    [DefaultOptions EXCEPT !.device_model = "android",
                           !.user_agent = "Revolut/com.revolut.revolut (android)"]

\* The fields of Options, in the order of the struct.
OptionFields ==
    <<"client_version", "api_version", "device_id", "device_model",
      "user_agent">>

\* OptionsBuilder::default(): no field set yet.
EmptyBuilder ==
    [client_version |-> Absent, api_version |-> Absent, device_id |-> Absent,
     device_model |-> Absent, user_agent |-> Absent]

\* OptionsBuilder's setter of one field: #[builder(setter(into))].
builder_set(b, field, v) == [b EXCEPT ![field] = Some(v)]

\* A field of the built Options: the value set, or, with #[builder(default)]
\* on the struct, the field of Options::default().
BuiltField(b, field) ==
    IF b[field] = Absent THEN DefaultOptions[field] ELSE b[field][1]

\* OptionsBuilder::build(), as #[derive(Builder)] with the struct-level
\* `default` generates it: no field is required.
build(b) ==
    [ok |-> TRUE,
     options |-> [client_version |-> BuiltField(b, "client_version"),
                  api_version    |-> BuiltField(b, "api_version"),
                  device_id      |-> BuiltField(b, "device_id"),
                  device_model   |-> BuiltField(b, "device_model"),
                  user_agent     |-> BuiltField(b, "user_agent")]]

\* The Result of a call on the client.
ApiOk == [ok |-> TRUE, error |-> "none"]
ApiErr(e) == [ok |-> FALSE, error |-> e]
NoResult == [ok |-> FALSE, error |-> "no call"]

\* What a call leaves: the client, the request it sent if any, its Result.
Call(self, request, result) ==
    [self |-> self, request |-> request, result |-> result]

\* Client::with_options, and Client::default() for Options::default().
with_options(options) ==
    [options |-> options, user_id |-> Absent, access_token |-> Absent]

\* Client::set_options
set_options(self, options) == [self EXCEPT !.options = options]

\* user_id.parse::<Uuid>(): the hyphenated and the simple form of a UUID
\* denote the same Uuid; any other text is an error.
UuidTexts ==
    {<<"00000000-0000-0000-0000-000000000001", 1>>,
     <<"00000000000000000000000000000001", 1>>,
     <<"00000000-0000-0000-0000-000000000002", 2>>}

ParseUuid(s) ==
    IF \E e \in UuidTexts : e[1] = s
    THEN Ok((CHOOSE e \in UuidTexts : e[1] = s)[2])
    ELSE ParseIntError

\* Variant of set_auth that stores the token before it parses the user ID.
set_auth_token_first(self, id_str, token) ==
    LET id == ParseUuid(id_str)
        stored == [self EXCEPT !.access_token = Some(token)]
    IN  IF ~id.ok THEN Call(stored, Absent, ApiErr("InvalidUserId"))
        ELSE Call([stored EXCEPT !.user_id = Some(id.value)], Absent, ApiOk)

\* Client::set_auth: `?` returns before either field is assigned.
set_auth(self, id_str, token) ==
    LET id == ParseUuid(id_str)
    IN  IF ~id.ok THEN Call(self, Absent, ApiErr("InvalidUserId"))
        ELSE Call([self EXCEPT !.user_id = Some(id.value),
                               !.access_token = Some(token)],
                  Absent, ApiOk)

\* Variant of unset_auth that forgets the user ID only.
unset_auth_user_only(self) == [self EXCEPT !.user_id = Absent]

\* Client::unset_auth
unset_auth(self) ==
    [self EXCEPT !.user_id = Absent, !.access_token = Absent]

\* Client::set_headers: the headers added to a request, as name-value pairs;
\* a header is left out when the field that guards it is empty.
set_headers(self) ==
    (IF self.options.client_version # ""
     THEN {<<"X-Client-Version", self.options.client_version>>} ELSE {})
    \cup (IF self.options.api_version # ""
          THEN {<<"X-Api-Version", self.options.api_version>>} ELSE {})
    \cup (IF self.options.device_id # ""
          THEN {<<"X-Device-Id", self.options.device_id>>} ELSE {})
    \cup (IF self.options.device_model # ""
          THEN {<<"X-Device-Model", self.options.device_id>>} ELSE {})
    \cup (IF self.options.user_agent # ""
          THEN {<<"User-Agent", self.options.user_agent>>} ELSE {})

----------------------------------------------------------------------------
(* The calls of the API (src/src/private/auth.rs, src/src/private/user.rs) *)

\* StatusCode::BAD_REQUEST and StatusCode::UNAUTHORIZED
BAD_REQUEST == 400
UNAUTHORIZED == 401

\* StatusCode::is_success: the 2XX range.
is_success(status) == status \in 200..299

\* A request handed to send(): method, endpoint, headers and basic auth.
Request(method, url, headers, auth) ==
    Some([method |-> method, url |-> url, headers |-> headers, auth |-> auth])

\* .header(ACCEPT, "application/json")
AcceptJson == {<<"Accept", "application/json">>}

\* .basic_auth(user_id, Some(access_token))
basic_auth(self) == Some(<<self.user_id[1], self.access_token[1]>>)

\* Client::sign_in
sign_in(self, response) ==
    LET request == Request("POST", "signin", set_headers(self), Absent)
    IN  IF response.failed THEN Call(self, request, ApiErr("RequestFailure"))
        ELSE IF is_success(response.status) THEN Call(self, request, ApiOk)
        ELSE IF response.status = UNAUTHORIZED
             THEN Call(self, request, ApiErr("Unauthorized"))
             ELSE Call(self, request, ApiErr("Other"))

\* Variant of confirm_sign_in that stores the credentials on a success
\* status before the body has been parsed.
confirm_sign_in_unparsed(self, response) ==
    LET request == Request("POST", "signin/confirm", set_headers(self), Absent)
        stored == [self EXCEPT !.user_id = Some(response.user_id),
                               !.access_token = Some(response.access_token)]
    IN  IF response.failed THEN Call(self, request, ApiErr("RequestFailure"))
        ELSE IF is_success(response.status)
             THEN IF response.parses THEN Call(stored, request, ApiOk)
                  ELSE Call(stored, request, ApiErr("ParseResponse"))
        ELSE IF response.status = BAD_REQUEST
             THEN IF response.parses
                  THEN Call(self, request, ApiErr("BadRequest"))
                  ELSE Call(self, request, ApiErr("ParseResponse"))
        ELSE IF response.status = UNAUTHORIZED
             THEN Call(self, request, ApiErr("Unauthorized"))
             ELSE Call(self, request, ApiErr("Other"))

\* Client::confirm_sign_in
confirm_sign_in(self, response) ==
    LET request == Request("POST", "signin/confirm", set_headers(self), Absent)
    IN  IF response.failed THEN Call(self, request, ApiErr("RequestFailure"))
        ELSE IF is_success(response.status)
             THEN IF ~response.parses
                  THEN Call(self, request, ApiErr("ParseResponse"))
                  ELSE Call([self EXCEPT
                                 !.user_id = Some(response.user_id),
                                 !.access_token = Some(response.access_token)],
                            request, ApiOk)
        ELSE IF response.status = BAD_REQUEST
             THEN IF response.parses
                  THEN Call(self, request, ApiErr("BadRequest"))
                  ELSE Call(self, request, ApiErr("ParseResponse"))
        ELSE IF response.status = UNAUTHORIZED
             THEN Call(self, request, ApiErr("Unauthorized"))
             ELSE Call(self, request, ApiErr("Other"))

\* `if let (&Some(ref user_id), &Some(ref access_token)) = ...`
LoggedIn(self) == self.user_id # Absent /\ self.access_token # Absent

\* The answer to a GET whose body is parsed on success.
GetAnswer(self, request, response) ==
    IF response.failed THEN Call(self, request, ApiErr("RequestFailure"))
    ELSE IF is_success(response.status)
         THEN IF response.parses THEN Call(self, request, ApiOk)
              ELSE Call(self, request, ApiErr("ParseResponse"))
    ELSE IF response.status = UNAUTHORIZED
         THEN Call(self, request, ApiErr("Unauthorized"))
         ELSE Call(self, request, ApiErr("Other"))

\* Client::current_user
current_user(self, response) ==
    IF LoggedIn(self)
    THEN GetAnswer(self,
                   Request("GET", "user/current",
                           set_headers(self) \cup AcceptJson, basic_auth(self)),
                   response)
    ELSE Call(self, Absent, ApiErr("NotLoggedIn"))

\* Client::current_user_wallet
current_user_wallet(self, response) ==
    IF LoggedIn(self)
    THEN GetAnswer(self,
                   Request("GET", "user/current/wallet",
                           set_headers(self) \cup AcceptJson, basic_auth(self)),
                   response)
    ELSE Call(self, Absent, ApiErr("NotLoggedIn"))

\* Variant of current_user_cards without the check of the credentials: the
\* request goes out with no authentication.
current_user_cards_unguarded(self, response) ==
    GetAnswer(self,
              Request("GET", "user/current/cards",
                      set_headers(self) \cup AcceptJson, Absent),
              response)

\* Client::current_user_cards
current_user_cards(self, response) ==
    IF LoggedIn(self)
    THEN GetAnswer(self,
                   Request("GET", "user/current/cards",
                           set_headers(self) \cup AcceptJson, basic_auth(self)),
                   response)
    ELSE Call(self, Absent, ApiErr("NotLoggedIn"))

\* Client::change_current_user_address
change_current_user_address(self, response) ==
    IF LoggedIn(self)
    THEN LET request == Request("PATCH", "user/current",
                                set_headers(self) \cup AcceptJson,
                                basic_auth(self))
         IN  IF response.failed
             THEN Call(self, request, ApiErr("RequestFailure"))
             ELSE IF is_success(response.status) THEN Call(self, request, ApiOk)
             ELSE IF response.status = UNAUTHORIZED
                  THEN Call(self, request, ApiErr("Unauthorized"))
             ELSE IF response.status = BAD_REQUEST
                  THEN IF response.parses
                       THEN Call(self, request, ApiErr("BadRequest"))
                       ELSE Call(self, request, ApiErr("ParseResponse"))
             ELSE Call(self, request, ApiErr("Other"))
    ELSE Call(self, Absent, ApiErr("NotLoggedIn"))

----------------------------------------------------------------------------
(* Inputs *)

\* Amounts the operators are applied to: both ends of the word, the largest
\* whole number of units, and amounts with every shape of fraction.
AmountInputs ==
    {min_value, 1, 2, 9, 10, 33, 34, 50, 99, 100, 101, 234, 250, 700, 734}
    \cup {U64_MAX \div 100, (U64_MAX \div 100) * 100, U64_MAX \div 2,
          U64_MAX \div 2 + 1, U64_MAX - 100, U64_MAX - 1, max_value}

\* Amounts the program holds at the start: every small amount, and the
\* amounts above.
AmountValues == (0..U64_MAX \div 8) \cup AmountInputs

\* Scalars of the full-width type: small ones, the largest whose hundredfold
\* fits the word, the first whose hundredfold does not, one whose hundredfold
\* is a multiple of the modulus, and the largest.
WideScalars ==
    {0, 1, 2, 3, 5, 10, U64_MAX \div 100, U64_MAX \div 100 + 1,
     Modulus \div 4, U64_MAX \div 2, U64_MAX - 1, U64_MAX}

ScalarInputs(t) == IF t = "u64" THEN WideScalars ELSE 0..ScalarMax(t)

\* Right-hand operands: an Amount, or a scalar of one of the scalar types.
Operands ==
    {[kind |-> "Amount", v |-> a] : a \in AmountInputs}
    \cup UNION {{[kind |-> t, v |-> n] : n \in ScalarInputs(t)} : t \in ScalarTypes}

NoOperand == [kind |-> "none", v |-> 0]

\* Digit strings of length 1..n over the digits of ds.
RECURSIVE DigitStrings(_, _)
DigitStrings(ds, n) ==
    IF n = 0 THEN {}
    ELSE LET shorter == DigitStrings(ds, n - 1)
         IN  {<<d>> : d \in ds} \cup shorter
             \cup {Append(f, d) : f \in shorter, d \in ds}

\* Integer parts: none, small ones, the largest that scales by 100, the first
\* that does not, the largest word, the first number beyond the word, and
\* one with leading zeros.
UnitsInputs ==
    {<<>>, <<"0">>, <<"1">>, <<"0", "0", "7">>}
    \cup {ToString(n) : n \in {U64_MAX \div 100 - 1, U64_MAX \div 100,
                               U64_MAX \div 100 + 1, U64_MAX, U64_MAX + 1}}

\* Fractional parts: every short string over a few digits, the fractions
\* around max_value's own, a fraction whose number is beyond the word, one
\* long enough for ten to its length less two to leave the word, and one
\* long enough for that power to be a multiple of the modulus.
FractionInputs ==
    DigitStrings({"0", "1", "4", "5", "9"}, MaxFracLen)
    \cup {Pad2(n) : n \in {(U64_MAX % 100) - 1, U64_MAX % 100, (U64_MAX % 100) + 1}}
    \cup {Pad2(n) \o <<d>> : n \in {(U64_MAX % 100) - 1, U64_MAX % 100},
                             d \in {"4", "5"}}
    \cup {ToString(U64_MAX + 1),
          <<"0", "0">> \o ToString(U64_MAX \div 2),
          Zeros(Len(ToString(U64_MAX)) + 1) \o <<"1">>,
          Zeros(WordBits + 1) \o <<"1">>}

\* Texts with a dot too many or with nothing after the dot.
DotInputs ==
    {u \o <<".">> : u \in UnitsInputs}
    \cup {u \o <<".">> \o f \o <<".">> \o g :
              u \in {<<>>, <<"1">>}, f \in {<<>>, <<"5">>, <<"0", "9">>},
              g \in {<<>>, <<"5">>}}
    \cup {<<"1", ".", "2", ".", "3", ".", "4">>}

\* Parts that hold a character that is no digit: a sign, a letter, a space,
\* alone or beside a digit.
NonDigitParts ==
    {<<c>> : c \in {"+", "-", "x", " "}}
    \cup {<<c, "5">> : c \in {"+", "-", "x", " "}}
    \cup {<<"5", c>> : c \in {"+", "-", "x", " "}}
    \cup {<<"+", "0", "5">>, <<"+", "+", "5">>, <<"-", "0">>}

\* Texts with a character that is no digit in the integer part, in the
\* fractional part, or in both.
NonDigitInputs ==
    NonDigitParts
    \cup {p \o <<".">> \o f : p \in NonDigitParts, f \in {<<"5">>, <<"0", "5">>}}
    \cup {u \o <<".">> \o p : u \in {<<>>, <<"1">>}, p \in NonDigitParts}
    \cup {p \o <<".">> \o p : p \in NonDigitParts}
    \cup {p \o <<".">> : p \in NonDigitParts}

\* Texts handed to from_str.
TextInputs ==
    UnitsInputs
    \cup {u \o <<".">> \o f : u \in UnitsInputs, f \in FractionInputs}
    \cup DotInputs
    \cup NonDigitInputs

Precisions == {None, 0, 1, 2, 3, 5}
Widths == {None, 0, 3, 4, 5, 6, 9}

----------------------------------------------------------------------------
(* The arithmetic operators applied to an amount *)

Last(seq) == seq[Len(seq)]

\* No client in use: Client::default(), before any call.
ClientIdle ==
    /\ client = with_options(DefaultOptions)
    /\ prev_client = client
    /\ builder = EmptyBuilder
    /\ args = Absent
    /\ sent = Absent
    /\ received = Absent
    /\ returned = NoResult

InitOps ==
    /\ overflow_checks \in BOOLEAN
    /\ value \in AmountValues
    /\ orig = value
    /\ prev = value
    /\ rhs \in Operands
    /\ ops = <<>>
    /\ panicked = FALSE
    /\ text = <<>>
    /\ precision = None
    /\ width = None
    /\ parsed = NotParsed
    /\ ClientIdle

CanApply == ~panicked /\ Len(ops) < MaxOps

\* The amount becomes the operator's result; a panic leaves it as it was.
Apply(name, outcome) ==
    /\ ops' = Append(ops, name)
    /\ prev' = value
    /\ value' = IF outcome.ok THEN outcome.value ELSE value
    /\ panicked' = ~outcome.ok
    /\ UNCHANGED <<overflow_checks, orig, rhs, text, precision, width, parsed,
                   clientVars>>

IsScalar == rhs.kind \in ScalarTypes
IsAmount == rhs.kind = "Amount"

\* amount = amount / n
DoDiv == CanApply /\ IsScalar /\ Apply("div", Div(value, rhs.v))

\* amount /= n
DoDivAssign == CanApply /\ IsScalar /\ Apply("div_assign", DivAssign(value, rhs.v))

\* amount = amount % n
DoRem == CanApply /\ IsScalar /\ Apply("rem", Rem(value, rhs.v, overflow_checks))

\* amount %= n
DoRemAssign ==
    CanApply /\ IsScalar
    /\ Apply("rem_assign", RemAssign(value, rhs.v, overflow_checks))

\* amount = amount * n
DoMul == CanApply /\ IsScalar /\ Apply("mul", Mul(value, rhs.v, overflow_checks))

\* amount = n * amount
DoMulScalar ==
    CanApply /\ IsScalar
    /\ Apply("scalar_mul", MulScalar(rhs.v, value, overflow_checks))

\* amount *= n
DoMulAssign ==
    CanApply /\ IsScalar
    /\ Apply("mul_assign", MulAssign(value, rhs.v, overflow_checks))

\* amount = amount + b
DoAdd == CanApply /\ IsAmount /\ Apply("add", Add(value, rhs.v, overflow_checks))

\* amount += b
DoAddAssign ==
    CanApply /\ IsAmount
    /\ Apply("add_assign", AddAssign(value, rhs.v, overflow_checks))

\* amount = amount - b
DoSub == CanApply /\ IsAmount /\ Apply("sub", Sub(value, rhs.v, overflow_checks))

\* amount -= b
DoSubAssign ==
    CanApply /\ IsAmount
    /\ Apply("sub_assign", SubAssign(value, rhs.v, overflow_checks))

Next ==
    \/ DoDiv
    \/ DoDivAssign
    \/ DoRem
    \/ DoRemAssign
    \/ DoMul
    \/ DoMulScalar
    \/ DoMulAssign
    \/ DoAdd
    \/ DoAddAssign
    \/ DoSub
    \/ DoSubAssign

Spec == InitOps /\ [][Next]_vars

----------------------------------------------------------------------------
(* Parsing and formatting *)

\* The program starts from a text to parse, or from an amount to format.
InitText ==
    /\ overflow_checks \in BOOLEAN
    /\ \/ /\ text \in TextInputs
          /\ value = None
          /\ precision = None
          /\ width = None
       \/ /\ text = <<>>
          /\ value \in 0..U64_MAX
          /\ precision \in Precisions
          /\ width = None
       \/ /\ text = <<>>
          /\ value \in AmountInputs
          /\ precision \in Precisions
          /\ width \in Widths
    /\ orig = value
    /\ prev = value
    /\ rhs = NoOperand
    /\ ops = <<>>
    /\ panicked = FALSE
    /\ parsed = NotParsed
    /\ ClientIdle

\* text = format!("{:width$.precision$}", amount)
DoDisplay ==
    /\ CanApply
    /\ value # None
    /\ text' = Display(value, precision, width)
    /\ ops' = Append(ops, "fmt")
    /\ prev' = value
    /\ UNCHANGED <<overflow_checks, value, orig, rhs, panicked, precision,
                   width, parsed, clientVars>>

\* amount = text.parse::<Amount>()
DoFromStr ==
    /\ CanApply
    /\ ops = <<>> => value = None
    /\ parsed' = FromStr(text, overflow_checks)
    /\ ops' = Append(ops, "from_str")
    /\ prev' = value
    /\ value' = IF parsed'.tag = "Ok" THEN parsed'.value ELSE value
    /\ panicked' = (parsed'.tag = "panic")
    /\ UNCHANGED <<overflow_checks, orig, rhs, text, precision, width,
                   clientVars>>

NextText ==
    \/ DoDisplay
    \/ DoFromStr

SpecText == InitText /\ [][NextText]_vars

----------------------------------------------------------------------------
(* The client in use *)

\* No amount in hand: the client's calls do no arithmetic.
AmountIdle ==
    /\ overflow_checks = FALSE
    /\ value = None
    /\ orig = None
    /\ prev = None
    /\ rhs = NoOperand
    /\ panicked = FALSE
    /\ text = <<>>
    /\ precision = None
    /\ width = None
    /\ parsed = NotParsed

amountVars ==
    <<overflow_checks, value, orig, prev, rhs, panicked, text, precision,
      width, parsed>>

\* Options a client is configured with: both presets, and the default one
\* with each field in turn left empty.
OptionsValues ==
    {DefaultOptions, AndroidOptions}
    \cup {[DefaultOptions EXCEPT ![OptionFields[i]] = ""] : i \in 1..Len(OptionFields)}

\* Texts given to set_auth as the user ID: UUIDs in both forms, and texts
\* that are no UUID.
UserIdTexts == {e[1] : e \in UuidTexts} \cup {"not-a-uuid"}

\* The Uuids the server knows, and access tokens.
Uuids == {e[2] : e \in UuidTexts}
Tokens == {"token-a", "token-b"}

\* A response: its status, whether its body parses as the structure the
\* call expects and, in a sign-in body, the user's ID and an access token.
Response(status, parses, id, token) ==
    [failed |-> FALSE, status |-> status, parses |-> parses,
     user_id |-> id, access_token |-> token]

\* send() failed: there is no response.
RequestFailed ==
    [failed |-> TRUE, status |-> 0, parses |-> FALSE,
     user_id |-> 1, access_token |-> ""]

\* What send() and the server can answer: a failure of the request, a
\* response of any status whose body does not parse, a success with any
\* user ID and token in its body, and an error response that parses.
Responses ==
    {RequestFailed}
    \cup {Response(s, FALSE, 1, "") :
              s \in {200, BAD_REQUEST, UNAUTHORIZED, 500}}
    \cup {Response(200, TRUE, u, t) : u \in Uuids, t \in Tokens}
    \cup {Response(s, TRUE, 1, "") : s \in {BAD_REQUEST, UNAUTHORIZED, 500}}

\* Client::with_options(options); Client::default() is among them.
InitClient ==
    /\ AmountIdle
    /\ ops = <<>>
    /\ client \in {with_options(o) : o \in OptionsValues}
    /\ prev_client = client
    /\ builder = EmptyBuilder
    /\ args = Absent
    /\ sent = Absent
    /\ received = Absent
    /\ returned = NoResult

\* The client becomes what the call leaves; the request and the Result of
\* the call are kept.
ApplyCall(name, given, call) ==
    /\ Len(ops) < MaxCalls
    /\ ops' = Append(ops, name)
    /\ prev_client' = client
    /\ args' = given
    /\ client' = call.self
    /\ sent' = call.request
    /\ returned' = call.result
    /\ UNCHANGED <<amountVars, builder>>

\* A call that sends no request.
ApplyLocal(name, given, call) ==
    ApplyCall(name, given, call) /\ received' = Absent

\* A call that may send a request, which send() answers with response.
ApplyRemote(name, call, response) ==
    /\ ApplyCall(name, Absent, call)
    /\ received' = IF call.request = Absent THEN Absent ELSE Some(response)

\* client.set_options(options)
DoSetOptions ==
    \E o \in OptionsValues :
        ApplyLocal("set_options", Some(o),
                   Call(set_options(client, o), Absent, ApiOk))

\* client.set_auth(user_id, access_token)
DoSetAuth ==
    \E id_str \in UserIdTexts, token \in Tokens :
        ApplyLocal("set_auth", Some(<<id_str, token>>),
                   set_auth(client, id_str, token))

\* client.unset_auth()
DoUnsetAuth ==
    ApplyLocal("unset_auth", Absent, Call(unset_auth(client), Absent, ApiOk))

\* client.sign_in(phone, password)
DoSignIn ==
    \E response \in Responses :
        ApplyRemote("sign_in", sign_in(client, response), response)

\* client.confirm_sign_in(phone, code)
DoConfirmSignIn ==
    \E response \in Responses :
        ApplyRemote("confirm_sign_in", confirm_sign_in(client, response), response)

\* client.current_user()
DoCurrentUser ==
    \E response \in Responses :
        ApplyRemote("current_user", current_user(client, response), response)

\* client.current_user_wallet()
DoCurrentUserWallet ==
    \E response \in Responses :
        ApplyRemote("current_user_wallet", current_user_wallet(client, response), response)

\* client.current_user_cards()
DoCurrentUserCards ==
    \E response \in Responses :
        ApplyRemote("current_user_cards", current_user_cards(client, response), response)

\* client.change_current_user_address(address)
DoChangeCurrentUserAddress ==
    \E response \in Responses :
        ApplyRemote("change_current_user_address",
                    change_current_user_address(client, response), response)

NextClient ==
    \/ DoSetOptions
    \/ DoSetAuth
    \/ DoUnsetAuth
    \/ DoSignIn
    \/ DoConfirmSignIn
    \/ DoCurrentUser
    \/ DoCurrentUserWallet
    \/ DoCurrentUserCards
    \/ DoChangeCurrentUserAddress

SpecClient == InitClient /\ [][NextClient]_vars

----------------------------------------------------------------------------
(* The options builder in use *)

\* Values given to the setter of a field: both presets' and the empty text.
BuilderValues(field) == {DefaultOptions[field], AndroidOptions[field], ""}

\* OptionsBuilder::default()
InitBuilder ==
    /\ AmountIdle
    /\ ops = <<>>
    /\ ClientIdle

\* builder.<field>(value), chained before build()
DoBuilderSet ==
    /\ ops = <<>>
    /\ \E i \in 1..Len(OptionFields) :
         \E v \in BuilderValues(OptionFields[i]) :
             builder' = builder_set(builder, OptionFields[i], v)
    /\ UNCHANGED <<amountVars, ops, client, prev_client, args, sent, received,
                   returned>>

\* builder.build(), and Client::with_options of the options built
DoBuild ==
    /\ CanApply
    /\ ops = <<>>
    /\ ops' = Append(ops, "build")
    /\ returned' = build(builder)
    /\ prev_client' = client
    /\ client' = IF returned'.ok THEN with_options(returned'.options) ELSE client
    /\ UNCHANGED <<amountVars, builder, args, sent, received>>

NextBuilder ==
    \/ DoBuilderSet
    \/ DoBuild

SpecBuilder == InitBuilder /\ [][NextBuilder]_vars

----------------------------------------------------------------------------
(* What the claims speak of *)

LastOp == IF ops = <<>> THEN "none" ELSE Last(ops)

\* The number a string of digits denotes; 0 for the empty string.
RECURSIVE DecimalValue(_)
DecimalValue(str) ==
    IF str = <<>> THEN 0
    ELSE 10 * DecimalValue(SubSeq(str, 1, Len(str) - 1)) + DigitValue(Last(str))

AllDigits(str) == \A i \in 1..Len(str) : str[i] \in Digits

\* The text is U, U.F or .F with U and F made of digits and F not empty.
IsDecimalText(s) ==
    LET split == Split(s)
    IN  \/ Len(split) = 1 /\ s # <<>> /\ AllDigits(s)
        \/ Len(split) = 2 /\ AllDigits(split[1]) /\ split[2] # <<>>
           /\ AllDigits(split[2])

\* The fraction F in hundredths, rounded half-up.  With d the number F
\* denotes and divisor = 10^(Len(F)-2), d \div divisor is the number the
\* first two digits denote, and d % divisor >= divisor \div 2 exactly when
\* the third digit is 5 or more.
RoundedHundredths(f) ==
    IF Len(f) = 1 THEN 10 * DigitValue(f[1])
    ELSE 10 * DigitValue(f[1]) + DigitValue(f[2])
         + (IF Len(f) >= 3 /\ DigitValue(f[3]) >= 5 THEN 1 ELSE 0)

\* The hundredths a decimal text denotes, rounded half-up to two decimals.
TextHundredths(s) ==
    LET split == Split(s)
    IN  IF Len(split) = 1 THEN DecimalValue(s) * 100
        ELSE DecimalValue(split[1]) * 100 + RoundedHundredths(split[2])

FractionOf(s) == Split(s)[2]

\* A text the program started from has just been parsed.
ParsedInput == ops = <<"from_str">>

\* C1: parsing the default-formatted text of any amount succeeds and gives
\* the amount back.
C1_RoundTrip ==
    (ops = <<"fmt", "from_str">> /\ precision = None /\ width = None)
        => parsed = ParseOk(orig)

\* C1 witness: max_value, formatted with two fractional digits, parsed back.
C1_Witness ==
    /\ ops = <<"fmt", "from_str">>
    /\ precision = None /\ width = None
    /\ orig = max_value
    /\ Len(text) = Len(ToString(U64_MAX \div 100)) + 3
    /\ parsed.tag = "Ok" /\ value = max_value

\* C2: an addition past u64::max_value() and a subtraction below zero always
\* panic, and never leave a wrapped amount.
C2_AddSubChecked ==
    /\ (LastOp \in {"add", "add_assign"} /\ prev + rhs.v > U64_MAX) => panicked
    /\ (LastOp \in {"sub", "sub_assign"} /\ prev < rhs.v) => panicked

\* C3: a scalar product past u64::max_value() always panics, in each of
\* a * n, n * a and a *= n, and never leaves a wrapped amount.
C3_MulChecked ==
    (LastOp \in {"mul", "scalar_mul", "mul_assign"} /\ prev * rhs.v > U64_MAX)
        => panicked

\* C4: for a scalar n > 0 whose hundredfold fits the word, x % n is what is
\* left of x.repr after taking out every whole multiple of n * 100.
C4_RemWholeUnits ==
    (LastOp \in {"rem", "rem_assign"} /\ rhs.v > 0 /\ rhs.v * 100 <= U64_MAX)
        => /\ ~panicked
           /\ value < rhs.v * 100
           /\ \E k \in 0..prev : prev = k * (rhs.v * 100) + value

\* C4 witness: a remainder that differs from the one over hundredths, with at
\* least one whole bucket taken out.
C4_Witness ==
    /\ LastOp = "rem" /\ rhs.v > 1 /\ rhs.v * 100 <= U64_MAX
    /\ prev >= rhs.v * 100
    /\ ~panicked /\ value # prev % rhs.v /\ value # prev

\* C5: for every scalar n > 0 of every width, x % n is what is left of x
\* after taking out every whole multiple of n units; it is x itself when n
\* units exceed x.
C5_RemEveryScalar ==
    (LastOp \in {"rem", "rem_assign"} /\ rhs.v > 0)
        => /\ ~panicked
           /\ value < rhs.v * 100
           /\ \E k \in 0..prev : prev = k * (rhs.v * 100) + value
           /\ (rhs.v * 100 > prev => value = prev)

\* C6: for a scalar n > 0, x / n is the floor of x.repr / n.
C6_DivTruncates ==
    (LastOp \in {"div", "div_assign"} /\ rhs.v > 0)
        => /\ ~panicked
           /\ value * rhs.v <= prev
           /\ prev < (value + 1) * rhs.v

\* C6 witness: a division that drops more than half a hundredth.
C6_Witness ==
    /\ LastOp = "div" /\ rhs.v > 0 /\ ~panicked /\ value > 0
    /\ 2 * (prev - value * rhs.v) > rhs.v

\* C7: n * x and x * n end the same way for every scalar type: the same
\* amount, or both a panic.
C7_MulCommutes ==
    /\ LastOp = "scalar_mul" =>
           LET other == Mul(prev, rhs.v, overflow_checks)
           IN  panicked = ~other.ok /\ (other.ok => value = other.value)
    /\ LastOp = "mul" =>
           LET other == MulScalar(rhs.v, prev, overflow_checks)
           IN  panicked = ~other.ok /\ (other.ok => value = other.value)

\* C7 witness: n * x has given a product for a scalar above 1.
C7_Witness ==
    /\ LastOp = "scalar_mul" /\ rhs.v > 1 /\ prev > 0
    /\ ~panicked /\ value = prev * rhs.v

\* C8: (x * n) / n is x whenever n > 0 and x * n fits the word.
C8_MulThenDiv ==
    (ops = <<"mul", "div">> /\ rhs.v > 0 /\ orig * rhs.v <= U64_MAX)
        => ~panicked /\ value = orig

\* C8 witness: an amount multiplied to something larger and divided back.
C8_Witness ==
    /\ ops = <<"mul", "div">> /\ rhs.v > 1 /\ orig > 0
    /\ prev = orig * rhs.v /\ ~panicked /\ value = orig

\* C9: a text U.F whose fraction has three or more digits parses to U * 100
\* plus the fraction rounded half-up to two digits.
C9_ParseRoundsHalfUp ==
    (/\ ParsedInput /\ IsDecimalText(text) /\ Contains(text, ".")
     /\ Len(FractionOf(text)) >= 3
     /\ TextHundredths(text) <= U64_MAX)
        => parsed = ParseOk(TextHundredths(text))

\* C10: a decimal text that denotes more than u64::max_value() hundredths,
\* once rounded, is answered with an error.
C10_OverflowRejected ==
    (ParsedInput /\ IsDecimalText(text) /\ TextHundredths(text) > U64_MAX)
        => parsed.tag = "Err"

\* C10 witness: the largest integer part, with a fraction that only the
\* rounding carries past max_value's, is rejected.
C10_Witness ==
    /\ ParsedInput /\ IsDecimalText(text) /\ Contains(text, ".")
    /\ Split(text)[1] = ToString(U64_MAX \div 100)
    /\ Len(FractionOf(text)) = 3
    /\ DecimalValue(SubSeq(FractionOf(text), 1, 2)) = U64_MAX % 100
    /\ TextHundredths(text) = U64_MAX + 1
    /\ parsed.tag = "Err"

\* The number of '.' characters of a text.
DotCount(s) == Cardinality({i \in 1..Len(s) : s[i] = "."})

\* C11: a text with two or more dots, a text with nothing after its single
\* dot, and the empty text are each answered with an error.
C11_MalformedDots ==
    (/\ ParsedInput
     /\ \/ DotCount(text) >= 2
        \/ DotCount(text) = 1 /\ Last(text) = "."
        \/ text = <<>>)
        => parsed.tag = "Err"

\* C11 witness: a text of three pieces of digits, the first two of which
\* would make an amount, is rejected.
C11_Witness ==
    /\ ParsedInput /\ DotCount(text) = 2
    /\ \A i \in 1..3 : Split(text)[i] # <<>> /\ AllDigits(Split(text)[i])
    /\ parsed = ParseErr(text)

\* Some character of the text is neither a digit nor a dot.
HasNonDigit(s) == \E i \in 1..Len(s) : s[i] \notin Digits \cup {"."}

\* C12: a text whose integer part or fractional part holds a character that
\* is no digit, a sign included, is answered with an error.
C12_NonDigitRejected ==
    (ParsedInput /\ HasNonDigit(text)) => parsed.tag = "Err"

\* C13: every error from_str returns is the AmountParseError that carries
\* the text it was given, unchanged.
C13_ErrorCarriesInput ==
    (LastOp = "from_str" /\ parsed.tag = "Err") => parsed.amount_str = text

\* C13 witness: an error raised inside the one-dot arm by an integer part
\* that is no number carries the whole text, fraction included.
C13_Witness ==
    /\ ParsedInput /\ DotCount(text) = 1
    /\ \E i \in 1..Len(Split(text)[1]) : Split(text)[1][i] \notin Digits
    /\ Split(text)[2] # <<>>
    /\ parsed.tag = "Err" /\ parsed.amount_str = text

\* C14: a text of digits with no fraction, or with a fraction of one or two
\* digits, parses exactly when its value fits: U gives U * 100, U.F gives
\* U * 100 + F * 10 for one digit and U * 100 + F for two, and an empty
\* integer part counts as 0.
C14_ShortFormsExact ==
    (/\ ParsedInput /\ IsDecimalText(text)
     /\ (Contains(text, ".") => Len(FractionOf(text)) <= 2)
     /\ TextHundredths(text) <= U64_MAX)
        => parsed.tag = "Ok" /\ parsed.value = TextHundredths(text)

\* C14 witness: a one-digit fraction after an empty integer part gives that
\* many tenths.
C14_Witness ==
    /\ ParsedInput /\ IsDecimalText(text)
    /\ Contains(text, ".") /\ Split(text)[1] = <<>>
    /\ Len(FractionOf(text)) = 1
    /\ parsed.tag = "Ok" /\ parsed.value = 10 * DigitValue(text[2])
    /\ parsed.value > 0

\* An amount the program started from has just been formatted.
Formatted == ops = <<"fmt">>

\* str is the decimal numeral of n, with no leading zero.
IsNumeral(str, n) ==
    /\ str # <<>> /\ AllDigits(str)
    /\ Len(str) > 1 => str[1] # "0"
    /\ DecimalValue(str) = n

\* C15: with no precision the text is the units alone when frac = 0, the
\* units, a dot and the one digit frac / 10 when frac is a non-zero multiple
\* of 10, and the units, a dot and frac on two digits otherwise; it denotes
\* the amount exactly and never ends in a fractional '0'.
C15_DefaultShortest ==
    (Formatted /\ precision = None /\ width = None)
        => LET units == value \div 100
               frac == value % 100
               split == Split(text)
           IN  /\ frac = 0 => IsNumeral(text, units)
               /\ frac # 0 =>
                    /\ Len(split) = 2
                    /\ IsNumeral(split[1], units)
                    /\ AllDigits(split[2])
                    /\ IF frac % 10 = 0
                       THEN Len(split[2]) = 1
                            /\ DecimalValue(split[2]) = frac \div 10
                       ELSE Len(split[2]) = 2
                            /\ DecimalValue(split[2]) = frac
               /\ IsDecimalText(text) /\ TextHundredths(text) = value
               /\ Contains(text, ".") => Last(text) # "0"

\* C15 witness: whole tens of hundredths above one unit print one digit
\* after the dot.
C15_Witness ==
    /\ Formatted /\ precision = None /\ width = None
    /\ value >= 100 /\ value % 100 # 0 /\ value % 10 = 0
    /\ Len(text) = Len(ToString(value \div 100)) + 2
    /\ text[Len(text) - 1] = "."

\* C16: with precision 0 the text is a bare integer, the units plus one when
\* frac >= 50 and the units otherwise, for every amount up to max_value.
C16_PrecisionZero ==
    (Formatted /\ precision = 0 /\ width = None)
        => IsNumeral(text, value \div 100
                           + (IF value % 100 >= 50 THEN 1 ELSE 0))

\* C16 witness: 1.50 prints as "2".
C16_Witness ==
    /\ Formatted /\ precision = 0 /\ width = None
    /\ value = 150 /\ text = <<"2">>

\* C17: with precision 1 the text is, for every amount, an integer part, a
\* dot and exactly one fractional digit, and the number printed is the
\* amount rounded half-up to one decimal.
C17_PrecisionOne ==
    (Formatted /\ precision = 1 /\ width = None)
        => LET split == Split(text)
               tenths == (value + 5) \div 10
           IN  /\ Len(split) = 2
               /\ IsNumeral(split[1], tenths \div 10)
               /\ Len(split[2]) = 1 /\ AllDigits(split[2])
               /\ DecimalValue(split[2]) = tenths % 10

\* C18: with a precision p >= 2 the text is the units, a dot, frac on two
\* digits and then p - 2 zeros: p fractional digits, nothing rounded.
C18_PrecisionMany ==
    (Formatted /\ precision # None /\ precision >= 2 /\ width = None)
        => LET split == Split(text)
           IN  /\ Len(split) = 2
               /\ IsNumeral(split[1], value \div 100)
               /\ Len(split[2]) = precision /\ AllDigits(split[2])
               /\ DecimalValue(SubSeq(split[2], 1, 2)) = value % 100
               /\ \A i \in 3..precision : split[2][i] = "0"

\* C18 witness: an amount with fewer than ten hundredths at precision 5
\* prints five fractional digits, the first of them '0'.
C18_Witness ==
    /\ Formatted /\ precision = 5 /\ width = None
    /\ value >= 100 /\ value % 100 \in 1..9
    /\ Len(text) = Len(ToString(value \div 100)) + 6
    /\ text[Len(text) - 4] = "0" /\ text[Len(text) - 3] # "0"

\* C19: with a width w the text is the precision-formatted text r with '0'
\* characters in front up to the length max(w, Len(r)); r itself is never
\* cut.
C19_MinimumWidth ==
    (Formatted /\ width # None)
        => LET r == FmtPrecision(value, precision)
               pad == Len(text) - Len(r)
           IN  /\ Len(text) = IF width > Len(r) THEN width ELSE Len(r)
               /\ SubSeq(text, pad + 1, Len(text)) = r
               /\ \A i \in 1..pad : text[i] = "0"

\* C19 witness: a text shorter than the width gets zeros in front.
C19_Witness ==
    /\ Formatted /\ width # None
    /\ width > Len(FmtPrecision(value, precision)) + 1
    /\ Len(text) = width /\ text[1] = "0" /\ text[2] = "0"
    /\ value >= 100

\* The amount after an assignment operator is what the binary operator
\* returns, and the assignment panics exactly when the operator does.
AssignedAs(outcome) ==
    /\ panicked = ~outcome.ok
    /\ outcome.ok => value = outcome.value

\* C20: after x += y, x -= y, x *= n, x /= n or x %= n the amount x is
\* what x + y, x - y, x * n, x / n or x % n returns on the same operands,
\* and the assignment panics in the same cases.
C20_AssignIsRebind ==
    /\ LastOp = "add_assign" => AssignedAs(Add(prev, rhs.v, overflow_checks))
    /\ LastOp = "sub_assign" => AssignedAs(Sub(prev, rhs.v, overflow_checks))
    /\ LastOp = "mul_assign" => AssignedAs(Mul(prev, rhs.v, overflow_checks))
    /\ LastOp = "div_assign" => AssignedAs(Div(prev, rhs.v))
    /\ LastOp = "rem_assign" => AssignedAs(Rem(prev, rhs.v, overflow_checks))

\* C20 witness: x %= n has taken whole multiples of n units out of x, and
\* left something other than the remainder over hundredths.
C20_Witness ==
    /\ LastOp = "rem_assign" /\ rhs.v > 1 /\ ~panicked
    /\ prev >= rhs.v * 100
    /\ value = prev % (rhs.v * 100) /\ value # prev % rhs.v

\* C25: for amounts a and b whose sum fits the word, (a + b) - b is a, and
\* adding min_value() leaves an amount as it was.
C25_SubUndoesAdd ==
    /\ (ops = <<"add", "sub">> /\ orig + rhs.v <= U64_MAX)
           => ~panicked /\ value = orig
    /\ (LastOp = "add" /\ rhs.v = min_value) => ~panicked /\ value = prev

\* C25 witness: a sum that reaches max_value, taken apart again.
C25_Witness ==
    /\ ops = <<"add", "sub">> /\ ~panicked
    /\ rhs.v > 0 /\ orig > 0 /\ prev = max_value /\ value = orig

\* C26: from_str answers every text with an amount or with an error; it
\* never panics, however long the fraction.
C26_ParseTotal ==
    LastOp = "from_str" => parsed.tag \in {"Ok", "Err"} /\ ~panicked

\* C27: every text U, U.F or .F of digits whose value, rounded half-up to
\* hundredths, fits the word parses to that value, however long F is.
C27_WellFormedAccepted ==
    (ParsedInput /\ IsDecimalText(text) /\ TextHundredths(text) <= U64_MAX)
        => parsed.tag = "Ok" /\ parsed.value = TextHundredths(text)

\* C28: x / 0, x /= 0, x % 0 and x %= 0 panic for a zero of every scalar
\* type, and produce no amount.
C28_ZeroScalarFaults ==
    (LastOp \in {"div", "div_assign", "rem", "rem_assign"} /\ rhs.v = 0)
        => panicked /\ value = prev

\* C28 witness: a remainder by the zero of the narrowest scalar type has
\* panicked and left the amount alone.
C28_Witness ==
    /\ LastOp = "rem" /\ rhs = [kind |-> "u8", v |-> 0]
    /\ panicked /\ prev > 0 /\ value = prev

\* The value a set of headers gives for a name is v, and no other.
Carries(headers, name, v) ==
    \A h \in headers : h[1] = name => h[2] = v

HasHeader(headers, name) == \E h \in headers : h[1] = name

\* C21: every request the client sends carries X-Client-Version,
\* X-Api-Version, X-Device-Id, X-Device-Model and User-Agent, each with the
\* value of its Options field; X-Device-Model carries the device model.
C21_HeadersCarryOptions ==
    sent # Absent
        => LET headers == sent[1].headers
               options == prev_client.options
           IN  /\ HasHeader(headers, "X-Client-Version")
               /\ Carries(headers, "X-Client-Version", options.client_version)
               /\ HasHeader(headers, "X-Api-Version")
               /\ Carries(headers, "X-Api-Version", options.api_version)
               /\ HasHeader(headers, "X-Device-Id")
               /\ Carries(headers, "X-Device-Id", options.device_id)
               /\ HasHeader(headers, "X-Device-Model")
               /\ Carries(headers, "X-Device-Model", options.device_model)
               /\ HasHeader(headers, "User-Agent")
               /\ Carries(headers, "User-Agent", options.user_agent)

\* The calls that need the user to be logged in.
UserCalls ==
    {"current_user", "current_user_wallet", "current_user_cards",
     "change_current_user_address"}

\* C22: called on a client whose user ID or access token is absent,
\* current_user, current_user_wallet, current_user_cards and
\* change_current_user_address return NotLoggedIn and send no request.
C22_NotLoggedIn ==
    (/\ LastOp \in UserCalls
     /\ prev_client.user_id = Absent \/ prev_client.access_token = Absent)
        => /\ returned = ApiErr("NotLoggedIn")
           /\ sent = Absent /\ received = Absent
           /\ client = prev_client

\* C22 witness: after a set_auth that logged the user in and an
\* unset_auth, the cards are refused with no request sent.
C22_Witness ==
    /\ ops = <<"set_auth", "unset_auth", "current_user_cards">>
    /\ prev_client.user_id = Absent
    /\ returned = ApiErr("NotLoggedIn") /\ sent = Absent

\* The response is a success whose body parsed.
Succeeded(response) ==
    /\ response # Absent
    /\ ~response[1].failed
    /\ is_success(response[1].status)
    /\ response[1].parses

\* C23: confirm_sign_in stores the user ID and the access token of the
\* response exactly when the response is a success that parses; on every
\* other path it returns an error and leaves both as they were.
C23_ConfirmStores ==
    LastOp = "confirm_sign_in"
        => IF Succeeded(received)
           THEN /\ returned.ok
                /\ client.user_id = Some(received[1].user_id)
                /\ client.access_token = Some(received[1].access_token)
           ELSE /\ ~returned.ok
                /\ client.user_id = prev_client.user_id
                /\ client.access_token = prev_client.access_token

\* C23 witness: a logged-in client keeps its credentials when a later
\* confirm_sign_in gets a success status with a body that does not parse.
C23_Witness ==
    /\ LastOp = "confirm_sign_in" /\ Len(ops) > 1
    /\ received # Absent /\ ~received[1].failed
    /\ is_success(received[1].status) /\ ~received[1].parses
    /\ returned = ApiErr("ParseResponse")
    /\ prev_client.user_id # Absent /\ client = prev_client

\* The four fields the builder is said to require.
RequiredFields ==
    {"client_version", "api_version", "device_id", "device_model"}

SetFields == {f \in RequiredFields \cup {"user_agent"} : builder[f] # Absent}

\* C24: build() is an error when no field is set and when only one of
\* client_version, api_version, device_id and device_model is set; it
\* succeeds once all four are set, with or without user_agent.
C24_BuildRequiresFields ==
    LastOp = "build"
        => /\ SetFields = {} => ~returned.ok
           /\ (Cardinality(SetFields) = 1 /\ SetFields \subseteq RequiredFields)
                  => ~returned.ok
           /\ RequiredFields \subseteq SetFields => returned.ok

\* C29: the user ID is present exactly when the access token is.
C29_AllOrNothing ==
    (client.user_id = Absent) <=> (client.access_token = Absent)

\* C29 witness: a logged-in client after a confirm_sign_in that failed
\* still has both.
C29_Witness ==
    /\ LastOp = "confirm_sign_in" /\ ~returned.ok
    /\ client.user_id # Absent /\ client.access_token # Absent

\* The text is a UUID, in one of its forms.
IsUuidText(s) == \E e \in UuidTexts : e[1] = s

\* C30: set_auth with a text that is no UUID returns InvalidUserId and
\* leaves the stored user ID and access token as they were; with a UUID it
\* replaces both with the ones given.
C30_SetAuthFrame ==
    LastOp = "set_auth"
        => LET id_str == args[1][1]
               token == args[1][2]
           IN  IF IsUuidText(id_str)
               THEN /\ returned = ApiOk
                    /\ \E e \in UuidTexts :
                           e[1] = id_str /\ client.user_id = Some(e[2])
                    /\ client.access_token = Some(token)
               ELSE /\ returned = ApiErr("InvalidUserId")
                    /\ client = prev_client

\* C30 witness: a logged-in client given a text that is no UUID, with
\* another token, keeps the credentials it had.
C30_Witness ==
    /\ LastOp = "set_auth" /\ ~IsUuidText(args[1][1])
    /\ returned = ApiErr("InvalidUserId")
    /\ prev_client.access_token # Absent
    /\ prev_client.access_token # Some(args[1][2])
    /\ client = prev_client

====
